---------------------------- MODULE Spec2Model ----------------------------
(***************************************************************************)
(* Model of renomeador_pdfs.py: the taxpayer-ID (CPF) checksum, the three  *)
(* field extractors (CPF of the first buyer, contract number, person name) *)
(* and the batch run that copies each PDF under its computed name.         *)
(*                                                                         *)
(* A text is a sequence of characters, each character a string.  Regular   *)
(* expressions of the source are sequences of items matched by a small     *)
(* backtracking matcher (Match / Search) that follows Python's re: greedy  *)
(* quantifiers, alternatives tried in order, leftmost match.               *)
(***************************************************************************)
EXTENDS Integers, Sequences, FiniteSets, TLC

VARIABLES
    \* validate_cpf applied to one input
    v_in, v_out,
    \* the text handed to the extractors and which of them run on it
    alvo, text,
    \* the locals of extract_cpf_first_buyer, run step by step
    cx,
    \* the locals of extract_contract_number, run step by step
    kx,
    \* the call of extract_nome_until_comma
    nx,
    \* App.run: the mode, the PDFs of the input folder (name -> text read
    \* from it), the names in the output folder, and the locals of the run
    mode, entrada, saida, bx

vars == <<v_in, v_out, alvo, text, cx, kx, nx, mode, entrada, saida, bx>>
\* The variables of the batch run, and their values while no batch runs.
lote == <<mode, entrada, saida, bx>>
BxIdle == [pc |-> "idle"]
LoteIdle == mode = "" /\ entrada = <<>> /\ saida = {} /\ bx = BxIdle

(***************************************************************************)
(* Characters                                                              *)
(***************************************************************************)
UPPERS == <<"A","B","C","D","E","F","G","H","I","J","K","L","M",
            "N","O","P","Q","R","S","T","U","V","W","X","Y","Z">>
LOWERS == <<"a","b","c","d","e","f","g","h","i","j","k","l","m",
            "n","o","p","q","r","s","t","u","v","w","x","y","z">>
DIGITS == <<"0","1","2","3","4","5","6","7","8","9">>

Range(f) == {f[i] : i \in DOMAIN f}
Upper == Range(UPPERS)
Lower == Range(LOWERS)
Digit == Range(DIGITS)

\* A sentinel for Python's None.
None == <<"None">>

Min2(a, b) == IF a < b THEN a ELSE b
Max2(a, b) == IF a > b THEN a ELSE b
SetMin(S) == CHOOSE x \in S : \A y \in S : x <= y


(***************************************************************************)
(* Character classes of Python's re on str patterns.  GAP stands for a run *)
(* of GapLen spaces: one element of the sequence, GapLen characters wide.  *)
(***************************************************************************)
\* Width of a GAP, in characters.
GapLen == 16000
GAP == "<gap>"
\* Combining marks (Unicode category Mn) and the letters that carry them.
Mn == {"<acute>", "<tilde>", "<cedilla>"}
Accented == <<"Á", "Ã", "Ç", "É", "Ê", "á", "ã", "ç", "é", "ê">>
AccentBase == <<"A", "A", "C", "E", "E", "a", "a", "c", "e", "e">>

IndexOf(seq, c) == CHOOSE i \in DOMAIN seq : seq[i] = c

\* \d, \s and \w; "º" (U+00BA, category Lo) is alphanumeric, "°" is not.
IsDigit(c) == c \in Digit
IsSpace(c) == c \in {" ", "\n", "\t", GAP}
IsWord(c) == c \in Upper \cup Lower \cup Digit \cup Range(Accented) \cup {"_", "º"}

Width(c) == IF c = GAP THEN GapLen ELSE 1

\* The indices of s that hold a GAP.
Gaps(s) == {i \in DOMAIN s : s[i] = GAP}

\* len(s) in characters.
PyLen(s) == Len(s) + (GapLen - 1) * Cardinality(Gaps(s))

\* The 0-based character offset at which element i of s starts, gaps being
\* Gaps(s).
OffG(gaps, i) == (i - 1) + (GapLen - 1) * Cardinality({j \in gaps : j < i})
Off(s, i) == OffG(Gaps(s), i)

\* Python's s[a:b], a and b character offsets: the elements that overlap
\* [a, b).  Only a GAP is wider than one character, and a GAP cut by a
\* slice is still a run of spaces.
Slice(s, a, b) ==
    LET gaps == Gaps(s)
        keep == {i \in DOMAIN s : OffG(gaps, i) + Width(s[i]) > a /\ OffG(gaps, i) < b}
    IN  IF keep = {} THEN <<>>
        ELSE SubSeq(s, SetMin(keep), SetMin(keep) + Cardinality(keep) - 1)

(***************************************************************************)
(* Regular expressions: a pattern is a sequence of alternatives, tried in  *)
(* order; an alternative is a sequence of items; an item is a word         *)
(* boundary or a character class repeated lo..hi times (hi = -1: no upper  *)
(* limit), greedy.                                                         *)
(***************************************************************************)
B == [k |-> "b", cls |-> {}, lo |-> 0, hi |-> 0]
C(cls, lo, hi) == [k |-> "c", cls |-> cls, lo |-> lo, hi |-> hi]
One(cls) == <<C(cls, 1, 1)>>
Opt(cls) == <<C(cls, 0, 1)>>
Star(cls) == <<C(cls, 0, -1)>>
Plus(cls) == <<C(cls, 1, -1)>>
Lit(w) == [i \in DOMAIN w |-> C({w[i]}, 1, 1)]
\* A literal under re.IGNORECASE.
BothCases(c) ==
    IF c \in Upper THEN {c, LOWERS[IndexOf(UPPERS, c)]}
    ELSE IF c \in Lower THEN {c, UPPERS[IndexOf(LOWERS, c)]}
    ELSE {c}
LitI(w) == [i \in DOMAIN w |-> C(BothCases(w[i]), 1, 1)]

SpaceCls == {" ", "\n", "\t", GAP}
Bd == <<B>>

IsBoundary(s, i) ==
    LET before == i > 1 /\ i - 1 <= Len(s) /\ IsWord(s[i - 1])
        after  == i >= 1 /\ i <= Len(s) /\ IsWord(s[i])
    IN  before # after

RECURSIVE RunLen(_, _, _, _)
RunLen(s, i, cls, hi) ==
    IF hi = 0 \/ i > Len(s) \/ s[i] \notin cls THEN 0
    ELSE 1 + RunLen(s, i + 1, cls, IF hi = -1 THEN -1 ELSE hi - 1)

\* Matches items k.. of alternative p at index i of s: the index after the
\* match, or 0.
RECURSIVE Match(_, _, _, _)
RECURSIVE TryDown(_, _, _, _, _)
Match(p, k, s, i) ==
    IF k > Len(p) THEN i
    ELSE IF p[k].k = "b" THEN (IF IsBoundary(s, i) THEN Match(p, k + 1, s, i) ELSE 0)
    ELSE TryDown(p, k, s, i, RunLen(s, i, p[k].cls, p[k].hi))
TryDown(p, k, s, i, n) ==
    IF n < p[k].lo THEN 0
    ELSE LET r == Match(p, k + 1, s, i + n)
         IN  IF r # 0 THEN r ELSE TryDown(p, k, s, i, n - 1)

RECURSIVE MatchAlts(_, _, _, _)
MatchAlts(re, a, s, i) ==
    IF a > Len(re) THEN 0
    ELSE LET r == Match(re[a], 1, s, i)
         IN  IF r # 0 THEN r ELSE MatchAlts(re, a + 1, s, i)

NoMatch == <<0, 0>>
\* re.search from index i on: <<first index, index after>> of the leftmost
\* match, or NoMatch.
\* An alternative whose first consuming item cannot be skipped matches at j
\* only if s[j] is in that item's class: the matcher is tried only there.
MayStart(p, c) ==
    LET k == IF p # <<>> /\ p[1].k = "b" THEN 2 ELSE 1
    IN  k > Len(p) \/ p[k].k = "b" \/ p[k].lo = 0 \/ c \in p[k].cls
MayStartAny(re, s, j) ==
    \E a \in DOMAIN re : IF j <= Len(s) THEN MayStart(re[a], s[j]) ELSE MayStart(re[a], "")
MatchAt(re, s, j) == <<j, MatchAlts(re, 1, s, j)>>
Leftmost(re, s, starts) == IF starts = {} THEN NoMatch ELSE MatchAt(re, s, SetMin(starts))
SearchFrom(re, s, i) ==
    Leftmost(re, s, {j \in i..(Len(s) + 1) : MayStartAny(re, s, j) /\ MatchAlts(re, 1, s, j) # 0})
Search(re, s) == SearchFrom(re, s, 1)

\* re.finditer: the non-overlapping matches, left to right.
RECURSIVE FindIterFrom(_, _, _)
FindIterFrom(re, s, i) ==
    LET m == SearchFrom(re, s, i)
    IN  IF m = NoMatch THEN <<>>
        ELSE <<m>> \o FindIterFrom(re, s, IF m[2] > m[1] THEN m[2] ELSE m[2] + 1)
FindIter(re, s) == FindIterFrom(re, s, 1)

\* m.start(), m.end() and m.group(0) of a match m in s.
MStart(s, m) == Off(s, m[1])
MEnd(s, m) == Off(s, m[2])
Group0(s, m) == SubSeq(s, m[1], m[2] - 1)


(***************************************************************************)
(* Utilities                                                               *)
(***************************************************************************)
\* NFD splits an accented letter into its base letter and a combining mark;
\* the marks (category Mn), those of the input included, are then dropped.
NFDBase(c) == IF c \in Range(Accented) THEN AccentBase[IndexOf(Accented, c)] ELSE c
NotMn(c) == c \notin Mn
strip_accents(s) ==
    LET kept == SelectSeq(s, NotMn) IN [i \in DOMAIN kept |-> NFDBase(kept[i])]

UpperChar(c) ==
    IF c \in Lower THEN UPPERS[IndexOf(LOWERS, c)]
    ELSE IF c \in {"á", "ã", "ç", "é", "ê"} THEN Accented[IndexOf(Accented, c) - 5]
    ELSE c
upper(s) == [i \in DOMAIN s |-> UpperChar(s[i])]

only_digits(s) == SelectSeq(s, IsDigit)

\* str.strip() and "not text.strip()"
IsBlank(s) == \A i \in DOMAIN s : IsSpace(s[i])
strip(s) ==
    IF IsBlank(s) THEN <<>>
    ELSE LET ne == {i \in DOMAIN s : ~IsSpace(s[i])}
         IN  SubSeq(s, SetMin(ne), CHOOSE j \in ne : \A y \in ne : y <= j)

int(c) == IndexOf(DIGITS, c) - 1

RECURSIVE SumTo(_, _, _)
\* sum(int(cpf[i]) * (w - i) for i in range(n)), i 0-based
SumTo(d, w, n) == IF n = 0 THEN 0 ELSE SumTo(d, w, n - 1) + int(d[n]) * (w - (n - 1))

\* validate_cpf without its second check digit.
validate_cpf_no_dv2(s) ==
    LET d == only_digits(s) IN
    IF Len(d) # 11 \/ d = [i \in 1..11 |-> d[1]] THEN FALSE
    ELSE LET dv1 == (SumTo(d, 10, 9) * 10) % 11
         IN  (IF dv1 = 10 THEN 0 ELSE dv1) = int(d[10])
validate_cpf(s) ==
    LET d == only_digits(s) IN
    IF Len(d) # 11 \/ d = [i \in 1..11 |-> d[1]] THEN FALSE
    ELSE LET dv1 == (SumTo(d, 10, 9) * 10) % 11
             dv2 == (SumTo(d, 11, 10) * 10) % 11
         IN  /\ (IF dv1 = 10 THEN 0 ELSE dv1) = int(d[10])
             /\ (IF dv2 = 10 THEN 0 ELSE dv2) = int(d[11])

(***************************************************************************)
(* Patterns of the CPF extractor                                           *)
(***************************************************************************)
\* U+002D, U+2010..U+2014, U+2212
_HYPHENS == {"-", "<U+2010>", "<U+2011>", "<U+2012>", "<U+2013>", "<U+2014>", "<U+2212>"}
_SEP == {".", " "} \cup _HYPHENS
D3 == <<C(Digit, 3, 3)>>
D2 == <<C(Digit, 2, 2)>>
CPF_REGEX == <<Bd \o D3 \o Opt(_SEP) \o D3 \o Opt(_SEP) \o D3 \o Opt(_SEP) \o D2 \o Bd>>
CPF_ANY11_REGEX == <<Bd \o <<C(Digit, 11, 11)>> \o Bd>>

Sp1 == Plus(SpaceCls)
Sp0 == Star(SpaceCls)
ANCHOR_PRINCIPAL ==
    <<Lit(<<"D","O","R","A","V","A","N","T","E">>) \o Sp1 \o Lit(<<"D","E","N","O","M","I","N","A","D","O","(","S",")">>) \o Sp1
        \o Lit(<<"D","E","V","E","D","O","R","(","E","S",")">>) \o Sp0 \o Lit(<<":">>)>>

\* X(?:ES)? and the like: the longer alternative is tried first.
WordOpt(w, suf) == <<Bd \o Lit(w \o suf) \o Bd, Bd \o Lit(w) \o Bd>>
ANCHORS_FALLBACK == <<
    WordOpt(<<"C","O","M","P","R","A","D","O","R">>, <<"E","S">>),
    WordOpt(<<"D","E","V","E","D","O","R">>, <<"E","S">>),
    <<Bd \o Lit(<<"P","A","R","T","E">>) \o Sp1 \o Lit(<<"A","D","Q","U","I","R","E","N","T","E">>) \o Bd>>,
    <<Bd \o Lit(<<"P","A","R","T","E">>) \o Sp1 \o Lit(<<"C","O","M","P","R","A","D","O","R","A">>) \o Bd>>,
    <<Bd \o Lit(<<"A","D","Q","U","I","R","E","N","T","E">>) \o Bd>> >>

\* Searched in the normalized text under IGNORECASE | DOTALL.
END_ANCHORS == <<
    <<Bd \o LitI(<<"C","O","N","S","T","R","U","T","O","R","A">>) \o Sp1 \o LitI(<<"E">>) \o Sp1 \o LitI(<<"F","I","A","D","O","R","A">>) \o Bd>>,
    <<Bd \o LitI(<<"C","R","E","D","O","R","A">>) \o Sp1 \o LitI(<<"F","I","D","U","C","I">>) \o One({"Á","á","A","a"}) \o LitI(<<"R","I","A">>) \o Bd>>,
    <<Bd \o LitI(<<"V","E","N","D","E","D","O","R","E","S">>) \o Bd, Bd \o LitI(<<"V","E","N","D","E","D","O","R">>) \o Bd>>,
    <<Bd \o LitI(<<"P","A","R","T","E">>) \o Sp1 \o LitI(<<"V","E","N","D","E","D","O","R","A">>) \o Bd>>,
    <<Bd \o LitI(<<"P","R","O","M","I","T","E","N","T","E">>) \o Sp1 \o LitI(<<"V","E","N","D","E","D","O","R","E","S">>) \o Bd,
      Bd \o LitI(<<"P","R","O","M","I","T","E","N","T","E">>) \o Sp1 \o LitI(<<"V","E","N","D","E","D","O","R">>) \o Bd>>,
    <<Bd \o LitI(<<"C","E","D","E","N","T","E","S">>) \o Bd, Bd \o LitI(<<"C","E","D","E","N","T","E">>) \o Bd>>,
    <<Bd \o LitI(<<"T","R","A","N","S","M","I","T","E","N","T","E","S">>) \o Bd, Bd \o LitI(<<"T","R","A","N","S","M","I","T","E","N","T","E">>) \o Bd>>,
    <<Bd \o LitI(<<"C","L">>) \o One({"A","a","Á","á"}) \o LitI(<<"U","S","U","L","A">>) \o Bd>>,
    <<Bd \o LitI(<<"O","B","J","E","T","O">>) \o Bd>>,
    <<Bd \o LitI(<<"T","E","S","T","E","M","U","N","H","A","S">>) \o Bd, Bd \o LitI(<<"T","E","S","T","E","M","U","N","H","A">>) \o Bd>> >>

CPF_LABEL_TOLERANT ==
    <<Bd \o LitI(<<"C">>) \o Sp0 \o Opt({"."}) \o Sp0 \o LitI(<<"P">>)
        \o Sp0 \o Opt({"."}) \o Sp0 \o LitI(<<"F">>) \o Bd>>


(***************************************************************************)
(* extract_cpf_first_buyer: sections and strategies                        *)
(***************************************************************************)
JANELA_PRINCIPAL == 25000
JANELA_FALLBACK == 15000
window_ahead == 240

\* The statuses; "[!]" stands for the warning sign (U+26A0 U+FE0F) of the source.
STATUS_SEM_TEXTO == "ERRO: PDF sem texto"
STATUS_OK == "OK"
STATUS_ERRO_PRINCIPAL == "ERRO: CPF não encontrado após âncora principal"
STATUS_FALLBACK == "[!] Âncora principal não encontrada, CPF via fallback"
STATUS_FULLSCAN == "[!] Âncora não encontrada, CPF via fullscan"
STATUS_NENHUM == "ERRO: Nenhum CPF válido encontrado"

\* norm = strip_accents(text).upper()
Norm(t) == upper(strip_accents(t))

\* The loop of _first_end_after over END_ANCHORS[k..], end so far in `end`.
RECURSIVE FirstEndLoop(_, _, _, _)
FirstEndLoop(k, start, norm_text, end) ==
    IF k > Len(END_ANCHORS) THEN end
    ELSE LET rest == Slice(norm_text, start, PyLen(norm_text))
             m == Search(END_ANCHORS[k], rest)
             cand == start + MStart(rest, m)
         IN  FirstEndLoop(k + 1, start, norm_text,
                          IF m # NoMatch /\ cand < end THEN cand ELSE end)
_first_end_after(start, norm_text) == FirstEndLoop(1, start, norm_text, PyLen(norm_text))

\* min(janela, end_pos - start_pos or janela)
SectionLen(janela, sp, ep) == Min2(janela, IF ep - sp = 0 THEN janela ELSE ep - sp)

\* text[start_pos: start_pos + min(janela, end_pos - start_pos or janela)]
SectionOf(t, janela, sp, ep) == Slice(t, sp, sp + SectionLen(janela, sp, ep))

\* end_pos = max(_first_end_after(start_pos, norm), start_pos)
EndPos(sp, norm_text) == Max2(_first_end_after(sp, norm_text), sp)

\* The candidate after one label match: the first 11 digits of the window,
\* or None when the window holds fewer.
LabelCandidate(s, m) ==
    LET start == MEnd(s, m)
        window == Slice(s, start, start + window_ahead)
        digits == SelectSeq(window, IsDigit)
    IN  IF Len(digits) >= 11 THEN SubSeq(digits, 1, 11) ELSE None

RECURSIVE LabelLoop(_, _, _)
LabelLoop(s, ms, j) ==
    IF j > Len(ms) THEN None
    ELSE LET cand == LabelCandidate(s, ms[j])
         IN  IF cand # None /\ validate_cpf(cand) THEN cand ELSE LabelLoop(s, ms, j + 1)
_extract_cpf_by_label_window(sec) == LabelLoop(sec, FindIter(CPF_LABEL_TOLERANT, sec), 1)

\* FirstMatchValid without the call of validate_cpf.
FirstMatchValid_sem_validacao(re, sec) ==
    LET m == Search(re, sec)
    IN  IF m # NoMatch THEN only_digits(Group0(sec, m)) ELSE None
\* m = REGEX.search(section); if m and validate_cpf(only_digits(m.group(0)))
FirstMatchValid(re, sec) ==
    LET m == Search(re, sec)
    IN  IF m # NoMatch /\ validate_cpf(only_digits(Group0(sec, m)))
        THEN only_digits(Group0(sec, m)) ELSE None

\* The three strategies on an anchored section, lines 160-170 and 184-194.
SectionCpf(sec) ==
    LET a == _extract_cpf_by_label_window(sec) IN
    IF a # None THEN a
    ELSE LET b == FirstMatchValid(CPF_REGEX, sec) IN
         IF b # None THEN b
         ELSE FirstMatchValid(CPF_ANY11_REGEX, sec)

\* for m in REGEX.finditer(text): first match whose digits validate
RECURSIVE IterValid(_, _, _)
IterValid(t, ms, j) ==
    IF j > Len(ms) THEN None
    ELSE LET cand == only_digits(Group0(t, ms[j]))
         IN  IF validate_cpf(cand) THEN cand ELSE IterValid(t, ms, j + 1)

\* The full scan, lines 197-214: the window of the first label, then every
\* CPF_REGEX match, then every CPF_ANY11_REGEX match.
FullscanLabel(t) ==
    LET m == Search(CPF_LABEL_TOLERANT, t)
        cand == IF m = NoMatch THEN None ELSE LabelCandidate(t, m)
    IN  IF cand # None /\ validate_cpf(cand) THEN cand ELSE None
FullscanCpf(t) ==
    LET a == FullscanLabel(t) IN
    IF a # None THEN a
    ELSE LET b == IterValid(t, FindIter(CPF_REGEX, t), 1) IN
         IF b # None THEN b
         ELSE IterValid(t, FindIter(CPF_ANY11_REGEX, t), 1)


(***************************************************************************)
(* extract_cpf_first_buyer as a step machine.  cx holds the call's locals: *)
(* pc (where the call is), norm, fb_i (the index into ANCHORS_FALLBACK),   *)
(* start_pos, end_pos, section, and the returned pair (cpf, status).       *)
(***************************************************************************)
KxIdle == [pc |-> "idle", k |-> 0, out |-> None]
NxIdle == [pc |-> "idle", out |-> None]
CxIdle == [pc |-> "idle", norm |-> <<>>, fb_i |-> 0, start_pos |-> 0, end_pos |-> 0,
           section |-> <<>>, cpf |-> None, status |-> ""]
CxStart == [CxIdle EXCEPT !.pc = "start"]

Return(st, c, s) == [st EXCEPT !.pc = "done", !.cpf = c, !.status = s]

\* Lines 155-158 and 179-182: the section after an anchor match m.
Anchored(st, t, norm, m, janela, next) ==
    LET sp == MEnd(norm, m)
        ep == EndPos(sp, norm)
    IN  [st EXCEPT !.pc = next, !.norm = norm, !.start_pos = sp, !.end_pos = ep,
                   !.section = SectionOf(t, janela, sp, ep)]

\* StepBegin taking the anchors in text order: a fallback anchor that occurs
\* before the primary anchor is tried first.
StepBegin_text_order(st, t) ==
    IF t = <<>> \/ IsBlank(t) THEN Return(st, None, STATUS_SEM_TEXTO)
    ELSE LET norm == Norm(t)
             m_main == Search(ANCHOR_PRINCIPAL, norm)
             earlier == \E k \in DOMAIN ANCHORS_FALLBACK :
                           LET m == Search(ANCHORS_FALLBACK[k], norm)
                           IN  m # NoMatch /\ m[1] < m_main[1]
         IN  IF m_main # NoMatch /\ ~earlier
             THEN Anchored(st, t, norm, m_main, JANELA_PRINCIPAL, "principal")
             ELSE [st EXCEPT !.pc = "fallback", !.norm = norm, !.fb_i = 1]
\* Lines 147-158: the empty-text guard, the normalization, the primary anchor.
StepBegin(st, t) ==
    IF t = <<>> \/ IsBlank(t) THEN Return(st, None, STATUS_SEM_TEXTO)
    ELSE LET norm == Norm(t)
             m_main == Search(ANCHOR_PRINCIPAL, norm)
         IN  IF m_main # NoMatch
             THEN Anchored(st, t, norm, m_main, JANELA_PRINCIPAL, "principal")
             ELSE [st EXCEPT !.pc = "fallback", !.norm = norm, !.fb_i = 1]

\* StepPrincipal falling through to the fallback anchors on a miss.
StepPrincipal_fallthrough(st, t) ==
    LET c == SectionCpf(st.section)
    IN  IF c # None THEN Return(st, c, STATUS_OK)
        ELSE [st EXCEPT !.pc = "fallback", !.fb_i = 1]
\* Lines 160-172: the section of the primary anchor decides.
StepPrincipal(st, t) ==
    LET c == SectionCpf(st.section)
    IN  IF c # None THEN Return(st, c, STATUS_OK)
        ELSE Return(st, None, STATUS_ERRO_PRINCIPAL)

\* Lines 175-182: the next fallback anchor, or the end of the loop.
StepFallbackAnchor(st, t) ==
    IF st.fb_i > Len(ANCHORS_FALLBACK) THEN [st EXCEPT !.pc = "fullscan"]
    ELSE LET m_fb == Search(ANCHORS_FALLBACK[st.fb_i], st.norm)
         IN  IF m_fb = NoMatch THEN [st EXCEPT !.fb_i = st.fb_i + 1]
             ELSE Anchored(st, t, st.norm, m_fb, JANELA_FALLBACK, "fallback_section")

\* Lines 184-194: the section of a fallback anchor.
StepFallbackSection(st, t) ==
    LET c == SectionCpf(st.section)
    IN  IF c # None THEN Return(st, c, STATUS_FALLBACK)
        ELSE [st EXCEPT !.pc = "fallback", !.fb_i = st.fb_i + 1]

\* Lines 196-216.
StepFullscan(st, t) ==
    LET c == FullscanCpf(t)
    IN  IF c # None THEN Return(st, c, STATUS_FULLSCAN)
        ELSE Return(st, None, STATUS_NENHUM)

CxStep(st, t) ==
    CASE st.pc = "start" -> StepBegin(st, t)
      [] st.pc = "principal" -> StepPrincipal(st, t)
      [] st.pc = "fallback" -> StepFallbackAnchor(st, t)
      [] st.pc = "fallback_section" -> StepFallbackSection(st, t)
      [] st.pc = "fullscan" -> StepFullscan(st, t)
      [] OTHER -> st

\* The call as a function: the steps run to the return.
RECURSIVE CxRun(_, _)
CxRun(st, t) == IF st.pc = "done" THEN st ELSE CxRun(CxStep(st, t), t)
extract_cpf_first_buyer(t) == LET r == CxRun(CxStart, t) IN <<r.cpf, r.status>>

CpfBegin == cx.pc = "start" /\ cx' = StepBegin(cx, text) /\ UNCHANGED <<v_in, v_out, alvo, text, kx, nx, lote>>
CpfPrincipal == cx.pc = "principal" /\ cx' = StepPrincipal(cx, text) /\ UNCHANGED <<v_in, v_out, alvo, text, kx, nx, lote>>
CpfFallbackAnchor == cx.pc = "fallback" /\ cx' = StepFallbackAnchor(cx, text) /\ UNCHANGED <<v_in, v_out, alvo, text, kx, nx, lote>>
CpfFallbackSection == cx.pc = "fallback_section" /\ cx' = StepFallbackSection(cx, text) /\ UNCHANGED <<v_in, v_out, alvo, text, kx, nx, lote>>
CpfFullscan == cx.pc = "fullscan" /\ cx' = StepFullscan(cx, text) /\ UNCHANGED <<v_in, v_out, alvo, text, kx, nx, lote>>

(***************************************************************************)
(* Input texts: up to MaxFrases phrases, written one after the other.      *)
(***************************************************************************)
MaxFrases == 3

FRASE_PRINCIPAL == <<"D","O","R","A","V","A","N","T","E"," ","D","E","N","O","M","I","N","A","D","O","(","S",")"," ","D","E","V","E","D","O","R","(","E","S",")",":">>
FrasesCpf == {
    FRASE_PRINCIPAL,
    <<"C","O","M","P","R","A","D","O","R"," ">>,
    <<"V","E","N","D","E","D","O","R"," ">>,
    <<"5","2","9",".","9","8","2",".","2","4","7","-","2","5"," ">>,
    <<"5","2","9",".","9","8","2",".","2","4","7","-","2","6"," ">>,
    <<"1","1","1","4","4","4","7","7","7","3","5"," ">>,
    <<"C","P","F"," ","5"," ","2"," ","9"," ","9"," ","8"," ","2"," ","2"," ","4"," ","7"," ","2"," ","5"," ">>,
    <<GAP>>,
    <<"<acute>">> }

SeqsUpTo(S, n) == UNION {{f \in [1..k -> S] : \A i, j \in 1..k : f[i] = f[j] => i = j} : k \in 0..n}
Concat(ss) == LET F[k \in 0..Len(ss)] == IF k = 0 THEN <<>> ELSE F[k - 1] \o ss[k] IN F[Len(ss)]
TextosCpf == {Concat(ss) : ss \in SeqsUpTo(FrasesCpf, MaxFrases)}

InitCpf ==
    /\ LoteIdle
    /\ v_in = <<>> /\ v_out = "idle"
    /\ alvo = "cpf"
    /\ text \in TextosCpf
    /\ cx = CxStart /\ kx = KxIdle /\ nx = NxIdle

NextCpf == CpfBegin \/ CpfPrincipal \/ CpfFallbackAnchor \/ CpfFallbackSection \/ CpfFullscan
SpecCpf == InitCpf /\ [][NextCpf]_vars


(***************************************************************************)
(* validate_cpf on digit strings: every pair of check digits after a       *)
(* 9-digit prefix, and the same strings one digit shorter and longer.      *)
(***************************************************************************)
Prefixos ==
    {[i \in 1..9 |-> IF i <= 4 THEN a ELSE b] : a \in Digit, b \in Digit}
        \cup {<<"5","2","9","9","8","2","2","4","7">>, <<"1","1","1","4","4","4","7","7","7">>}
EntradasValidate ==
    {p \o <<x, y>> : p \in Prefixos, x \in Digit, y \in Digit}
        \cup {p \o <<x>> : p \in Prefixos, x \in Digit}
        \cup {p \o <<x, x, x>> : p \in Prefixos, x \in Digit}

InitValidate ==
    /\ LoteIdle
    /\ v_in \in EntradasValidate /\ v_out = "pending"
    /\ alvo = "validate" /\ text = <<>> /\ cx = CxIdle /\ kx = KxIdle /\ nx = NxIdle

Validate ==
    /\ v_out = "pending"
    /\ v_out' = IF validate_cpf(v_in) THEN "true" ELSE "false"
    /\ UNCHANGED <<v_in, alvo, text, cx, kx, nx, lote>>

NextValidate == Validate
SpecValidate == InitValidate /\ [][NextValidate]_vars

(***************************************************************************)
(* C5                                                                      *)
(***************************************************************************)
\* The check digit of a weighted sum: (sum * 10) mod 11, 10 mapped to 0.
CheckDigit(sum) == IF (sum * 10) % 11 = 10 THEN 0 ELSE (sum * 10) % 11
Dig(d, i) == int(d[i + 1])
Sum9(d) == Dig(d,0)*10 + Dig(d,1)*9 + Dig(d,2)*8 + Dig(d,3)*7 + Dig(d,4)*6
            + Dig(d,5)*5 + Dig(d,6)*4 + Dig(d,7)*3 + Dig(d,8)*2
Sum10(d) == Dig(d,0)*11 + Dig(d,1)*10 + Dig(d,2)*9 + Dig(d,3)*8 + Dig(d,4)*7
            + Dig(d,5)*6 + Dig(d,6)*5 + Dig(d,7)*4 + Dig(d,8)*3 + Dig(d,9)*2
AllIdentical(d) == \A i \in DOMAIN d : d[i] = d[1]
IsValidId(d) ==
    /\ Len(d) = 11
    /\ ~AllIdentical(d)
    /\ Dig(d, 9) = CheckDigit(Sum9(d))
    /\ Dig(d, 10) = CheckDigit(Sum10(d))

\* C5: validate_cpf(d) is true exactly when d has 11 digits, not all
\* identical, and digits 9 and 10 are the two mod-11 check digits (10 mapped
\* to 0); an all-identical string is rejected, and an accepted string with
\* its last digit altered is rejected.
C5_ValidateExact ==
    v_out # "pending" /\ alvo = "validate" =>
        /\ (v_out = "true") <=> IsValidId(v_in)
        /\ (Len(v_in) = 11 /\ AllIdentical(v_in)) => v_out = "false"
        /\ v_out = "true" =>
              \A z \in Digit \ {v_in[11]} : ~validate_cpf([v_in EXCEPT ![11] = z])

\* An accepted ID whose second check digit is the 10 that maps to 0.
C5_Witness ==
    /\ v_out = "true"
    /\ (Sum10(v_in) * 10) % 11 = 10
    /\ v_in[11] = "0"


(***************************************************************************)
(* C1, C2, C3, C10: the tiers of extract_cpf_first_buyer                   *)
(***************************************************************************)
PrimaryMatch == Search(ANCHOR_PRINCIPAL, Norm(text))
PrimaryMatches == PrimaryMatch # NoMatch
FallbackMatch(k) == Search(ANCHORS_FALLBACK[k], Norm(text))
AnyFallbackMatches == \E k \in DOMAIN ANCHORS_FALLBACK : FallbackMatch(k) # NoMatch
\* A fallback anchor occurs in the text before the primary anchor.
FallbackEarlier ==
    /\ PrimaryMatches
    /\ \E k \in DOMAIN ANCHORS_FALLBACK :
          FallbackMatch(k) # NoMatch /\ FallbackMatch(k)[1] < PrimaryMatch[1]
InFallbackTier == cx.pc \in {"fallback", "fallback_section"}

\* C1: when the primary anchor matches the normalized text, the call never
\* enters the fallback tier or the full scan, and it returns either a
\* checksum-valid ID with status OK or no ID with the primary-anchor error.
C1_PrimaryDecides ==
    PrimaryMatches =>
        /\ ~InFallbackTier /\ cx.pc # "fullscan"
        /\ cx.pc = "done" =>
              \/ cx.cpf # None /\ Len(cx.cpf) = 11 /\ validate_cpf(cx.cpf) /\ cx.status = STATUS_OK
              \/ cx.cpf = None /\ cx.status = STATUS_ERRO_PRINCIPAL

\* The primary tier returned its error although the full scan of the same
\* text finds a valid ID.
C1_Witness ==
    /\ cx.pc = "done" /\ PrimaryMatches
    /\ cx.cpf = None /\ cx.status = STATUS_ERRO_PRINCIPAL
    /\ FullscanCpf(text) # None

\* C2, as stated: with a fallback anchor earlier in the text than the primary
\* anchor, the primary section is searched first and, when it yields no
\* valid ID, the fallback anchors are attempted next.
C2_FallbackStillAttempted ==
    [][/\ (cx.pc = "start" /\ FallbackEarlier) => cx'.pc = "principal"
       /\ (cx.pc = "principal" /\ FallbackEarlier /\ SectionCpf(cx.section) = None) =>
              cx'.pc = "fallback"]_vars

\* C2, amended: with a fallback anchor earlier in the text than the primary
\* anchor, the primary section is the one searched, and when it yields no
\* valid ID the call returns no ID with the primary-anchor error: the
\* fallback anchors are skipped.
C2_PrimaryFirstThenStop ==
    \/ /\ cx.pc \in {"start", "principal", "done"}
       /\ cx.pc \in {"principal", "done"} => cx.start_pos = MEnd(Norm(text), PrimaryMatch)
       /\ (cx.pc = "done" /\ SectionCpf(cx.section) = None) =>
             cx.cpf = None /\ cx.status = STATUS_ERRO_PRINCIPAL
    \/ ~FallbackEarlier

\* The section the fallback tier would search after anchor k.
FallbackSectionOf(k) ==
    LET norm == Norm(text)
        sp == MEnd(norm, FallbackMatch(k))
    IN  SectionOf(text, JANELA_FALLBACK, sp, EndPos(sp, norm))

\* The call ended with the primary-anchor error on a text whose earlier
\* fallback anchor has a valid ID in its section.
C2_Witness ==
    /\ cx.pc = "done" /\ cx.status = STATUS_ERRO_PRINCIPAL
    /\ FallbackEarlier
    /\ \E k \in DOMAIN ANCHORS_FALLBACK :
          /\ FallbackMatch(k) # NoMatch /\ FallbackMatch(k)[1] < PrimaryMatch[1]
          /\ SectionCpf(FallbackSectionOf(k)) # None

\* C3: when a fallback anchor matches (the primary anchor being absent) and
\* no matched anchor's section yields a valid ID, the call returns no
\* 'via fullscan' result.
C3_NoFullscanAfterFallbackAnchor ==
    (~PrimaryMatches /\ AnyFallbackMatches /\ cx.pc = "done") =>
        cx.status # STATUS_FULLSCAN

\* The terminator matches of the normalized text at or after offset sp.
TerminatorStarts(norm, sp) ==
    {Off(norm, j) : j \in {j \in 1..Len(norm) :
        Off(norm, j) >= sp /\ \E k \in DOMAIN END_ANCHORS : MatchAlts(END_ANCHORS[k], 1, norm, j) # 0}}
\* The nearest terminator start after sp, the end of the text when none.
NearestEnd(norm, sp) ==
    IF TerminatorStarts(norm, sp) = {} THEN PyLen(norm) ELSE SetMin(TerminatorStarts(norm, sp))

\* The anchor whose section is being searched, and its window.
CurrentAnchorEnd ==
    IF cx.pc = "principal" THEN MEnd(Norm(text), PrimaryMatch)
    ELSE MEnd(Norm(text), FallbackMatch(cx.fb_i))
CurrentWindow == IF cx.pc = "principal" THEN 25000 ELSE 15000
InSection == cx.pc \in {"principal", "fallback_section"}

\* C10: the section starts at the anchor's end and ends at the
\* minimum of the nearest following terminator start and anchor end + window
\* (25000 primary, 15000 fallback); it is empty when a terminator matches
\* at the anchor's end.
C10_SectionBounds ==
    InSection =>
        LET a == CurrentAnchorEnd
            e == Min2(NearestEnd(Norm(text), a), a + CurrentWindow)
        IN  /\ cx.start_pos = a
            /\ e >= a
            /\ cx.section = Slice(text, a, e)


(***************************************************************************)
(* extract_contract_number                                                 *)
(***************************************************************************)
\* str.splitlines(): the text is cut at each line break, and a final line
\* break opens no further line.  Character i lies on line 1 + the number of
\* line breaks before it.
LineOf(s) == [i \in DOMAIN s |-> 1 + Cardinality({b \in 1..(i - 1) : s[b] = "\n"})]
LineCount(s) ==
    Cardinality({i \in DOMAIN s : s[i] = "\n"}) + (IF s # <<>> /\ s[Len(s)] # "\n" THEN 1 ELSE 0)
Run(s, on) == IF on = {} THEN <<>> ELSE SubSeq(s, SetMin(on), SetMin(on) + Cardinality(on) - 1)
LinesBy(s, lineOf) == [j \in 1..LineCount(s) |-> Run(s, {i \in DOMAIN s : s[i] # "\n" /\ lineOf[i] = j})]
splitlines(s) == LinesBy(s, LineOf(s))

\* "w in s"
Contains(s, w) == \E i \in 1..(Len(s) - Len(w) + 1) : SubSeq(s, i, i + Len(w) - 1) = w

_N_LABEL == <<LitI(<<"N">>) \o Star(SpaceCls \cup {".", "-", "º", "°", "O", "o"})>>
nlabel_regex == _N_LABEL
num_after_contrato_regex == <<LitI(<<"C","O","N","T","R","A","T","O">>)>>
\* [0-9<hyphens>\.\s]{13,}
NUM_BLOCK == <<<<C(Digit \cup _HYPHENS \cup {"."} \cup SpaceCls, 13, -1)>>>>

_take_first_13_digits(s) ==
    LET ds == SelectSeq(s, IsDigit)
    IN  IF Len(ds) >= 13 THEN SubSeq(ds, 1, 13) ELSE None

lines_orig(t) == splitlines(t)
NormLines(ls) == [i \in DOMAIN ls |-> upper(strip_accents(ls[i]))]
lines_norm(t) == NormLines(splitlines(t))
\* [i for i, ln in enumerate(lines_norm) if "CONTRATO" in ln]
HasContrato(p) == Contains(p[2], <<"C","O","N","T","R","A","T","O">>)
Firsts(ps) == [j \in DOMAIN ps |-> ps[j][1]]
CandidatesOf(ln) == Firsts(SelectSeq([i \in DOMAIN ln |-> <<i, ln[i]>>], HasContrato))
candidate_idxs(t) == CandidatesOf(lines_norm(t))

\* a if it is not None, else b
OrElse(a, b) == IF a # None THEN a ELSE b
\* _take_first_13_digits of s, None when there is no s
Take13(s) == IF s = None THEN None ELSE _take_first_13_digits(s)

\* max(candidates, key = number of digits): the first of the largest.
DigitCounts(s, ms) == [i \in DOMAIN ms |-> Len(SelectSeq(Group0(s, ms[i]), IsDigit))]
FirstMax(n) == CHOOSE i \in DOMAIN n : (\A j \in DOMAIN n : n[j] <= n[i]) /\ (\A j \in 1..(i - 1) : n[j] < n[i])
BestOf(s, ms) == IF ms = <<>> THEN None ELSE _take_first_13_digits(Group0(s, ms[FirstMax(DigitCounts(s, ms))]))
BestBlock(s) == BestOf(s, FindIter(NUM_BLOCK, s))

\* The line of the keyword joined to the next one.
Window(ls, idx) == IF idx + 1 <= Len(ls) THEN ls[idx] \o <<" ">> \o ls[idx + 1] ELSE ls[idx]
\* What follows match m in s; None when there is no match.
After(s, m) == IF m = NoMatch THEN None ELSE SubSeq(s, m[2], Len(s))
\* What follows the keyword in the window ("(.*)" runs to the end: the
\* window holds no line break); None when the keyword is not in it.
TailOf(win) == After(win, Search(num_after_contrato_regex, win))
\* What follows the first number label of s; None when s has no label.
AfterLabel(s) == After(s, Search(nlabel_regex, s))

\* Steps 1 to 3 of try_window on what follows the keyword.
TryTail(tail) ==
    IF tail = None THEN None
    ELSE OrElse(Take13(AfterLabel(tail)), OrElse(_take_first_13_digits(tail), BestBlock(tail)))
try_window(ls, idx) == TryTail(TailOf(Window(ls, idx)))

\* One pass of the short fallback over line i (1-based here, 0-based in the
\* code: "i < 10" is i <= 10).
FallbackLine(ln, ln_up, i) ==
    IF Search(nlabel_regex, ln_up) # NoMatch /\ (Contains(ln_up, <<"C","O","N","T","R">>) \/ i <= 10)
    THEN OrElse(_take_first_13_digits(OrElse(AfterLabel(ln), ln)), BestBlock(ln))
    ELSE None
RECURSIVE FallbackLoop(_, _, _, _)
FallbackLoop(lo, ln, i, limit) ==
    IF i > limit THEN None
    ELSE OrElse(FallbackLine(lo[i], ln[i], i), FallbackLoop(lo, ln, i + 1, limit))
FallbackLimit(lo, ln) == FallbackLoop(lo, ln, 1, Min2(40, Len(lo)))
FallbackScan(t) == FallbackLimit(lines_orig(t), lines_norm(t))

KxStart == [pc |-> "start", k |-> 0, out |-> None]
KReturn(n) == [pc |-> "done", k |-> 0, out |-> n]
StepKBegin(k, t) == IF t = <<>> THEN KReturn(None) ELSE [k EXCEPT !.pc = "candidatos", !.k = 1]
JanelaResult(k, n) == IF n # None THEN KReturn(n) ELSE [k EXCEPT !.k = k.k + 1]
JanelaNext(k, ls, idxs) ==
    IF k.k > Len(idxs) THEN [k EXCEPT !.pc = "fallback"]
    ELSE JanelaResult(k, try_window(ls, idxs[k.k]))
StepKJanela(k, t) == JanelaNext(k, lines_orig(t), candidate_idxs(t))
StepKFallback(k, t) == KReturn(FallbackScan(t))
RECURSIVE KxRun(_, _)
KxRun(k, t) ==
    IF k.pc = "done" THEN k.out
    ELSE KxRun(IF k.pc = "start" THEN StepKBegin(k, t)
               ELSE IF k.pc = "candidatos" THEN StepKJanela(k, t)
               ELSE StepKFallback(k, t), t)
extract_contract_number(t) == KxRun(KxStart, t)

ContratoBegin == kx.pc = "start" /\ kx' = StepKBegin(kx, text) /\ UNCHANGED <<v_in, v_out, alvo, text, cx, nx, lote>>
ContratoJanela == kx.pc = "candidatos" /\ kx' = StepKJanela(kx, text) /\ UNCHANGED <<v_in, v_out, alvo, text, cx, nx, lote>>
ContratoFallback == kx.pc = "fallback" /\ kx' = StepKFallback(kx, text) /\ UNCHANGED <<v_in, v_out, alvo, text, cx, nx, lote>>

FrasesContrato == {
    <<"C","O","N","T","R","A","T","O"," ">>, <<"C","o","n","t","r","."," ">>, <<"N","º"," ","1","2","3","4","5","6","7","8","9","0","1","2","3"," ">>, <<"9","8","7","6","5","4","3","2","1","0","9","8","7"," ">>, <<"1","2","3","4","5"," ">>, <<"N","º"," ","7"," ">>, <<"f","l","s","."," ","7"," ">>,
    <<"\n">>, [i \in 1..10 |-> "\n"], [i \in 1..40 |-> "\n"]}
TextosContrato == {Concat(ss) : ss \in SeqsUpTo(FrasesContrato, MaxFrases)}
InitContrato ==
    /\ LoteIdle
    /\ v_in = <<>> /\ v_out = "idle"
    /\ alvo = "contrato"
    /\ text \in TextosContrato
    /\ cx = CxIdle /\ kx = KxStart /\ nx = NxIdle
NextContrato == ContratoBegin \/ ContratoJanela \/ ContratoFallback
SpecContrato == InitContrato /\ [][NextContrato]_vars

(***************************************************************************)
(* C8: the contract number of a keyword line                               *)
(***************************************************************************)
\* What the line of candidate k yields when the digits are taken after the
\* number label if the text following the keyword has one, and after the
\* keyword only if it has none.
LabelElseKeyword(tail) ==
    IF tail = None THEN None
    ELSE IF AfterLabel(tail) # None THEN _take_first_13_digits(AfterLabel(tail))
    ELSE _take_first_13_digits(tail)
ClaimedOfLine(t, k) == LabelElseKeyword(TailOf(Window(lines_orig(t), candidate_idxs(t)[k])))

\* C8: the keyword lines are examined in line order and the call returns at
\* the first that yields a number; what a line yields is the first 13 digits
\* after the number label when the text following the keyword has a label,
\* and the first 13 digits after the keyword otherwise.
C8_LabelElseKeyword ==
    [][(kx.pc = "candidatos" /\ kx'.pc = "done") =>
            /\ kx'.out = ClaimedOfLine(text, kx.k)
            /\ \A j \in 1..(kx.k - 1) : ClaimedOfLine(text, j) = None]_vars

(***************************************************************************)
(* extract_nome_until_comma                                                *)
(***************************************************************************)
WordCls == Upper \cup Lower \cup Digit \cup Range(Accented) \cup {"_", "º"}
\* w1\s+w2\s+...
Phrase(ws) == LET F[k \in 1..Len(ws)] == IF k = 1 THEN Lit(ws[1]) ELSE F[k - 1] \o Sp1 \o Lit(ws[k]) IN F[Len(ws)]
\* \bW\b and \bW\w*\b
Word(w) == <<Bd \o Lit(w) \o Bd>>
WordStem(w) == <<Bd \o Lit(w) \o Star(WordCls) \o Bd>>

\* The anchor lists of rename_certidoes_2 and rename_certidoes_5_6.
ANCHORS_CERTIDOES_2 == << <<Phrase(<<<<"C","O","M">>, <<"R","E","F","E","R","E","N","C","I","A">>, <<"A","O">>, <<"N","O","M","E">>, <<"D","E">>>>)>> >>
ANCHORS_CERTIDOES_5_6 == <<
    <<Phrase(<<<<"N","A","D","A">>, <<"C","O","N","S","T","A">>, <<"E","M">>, <<"N","O","M","E">>, <<"D","E">>>>)>>,
    <<Phrase(<<<<"E","M">>, <<"N","O","M","E">>, <<"D","E">>>>)>> >>

STOPWORDS_POS_NOME == <<
    Word(<<"C","P","F">>), Word(<<"R","G">>), Word(<<"C","N","H">>), Word(<<"C","T","P","S">>),
    <<Bd \o Lit(<<"F","I","L","I","A">>) \o One({"C", "Ç"}) \o One({"A", "Ã"}) \o Lit(<<"O">>) \o Bd>>,
    WordStem(<<"N","A","S","C">>), Word(<<"N","A","T","U","R","A","L">>),
    Word(<<"R","E","S","I","D","E","N","T","E">>), <<Bd \o Lit(<<"E","N","D","E","R","E">>) \o One({"C", "Ç"}) \o Lit(<<"O">>) \o Bd>>,
    Word(<<"C","O","N","F","O","R","M","E">>), WordStem(<<"R","E","Q","U","E","R","I","D">>), WordStem(<<"R","E","Q","U","E","R","E","N","T","E">>),
    <<Bd \o Lit(<<"C","E","R","T","I","D">>) \o One({"Ã", "A"}) \o Lit(<<"O">>) \o Bd>>, WordStem(<<"E","M","I","T","I","D">>), WordStem(<<"E","X","P","E","D","I","D">>),
    Word(<<"P","R","O","C","E","S","S","O">>), Word(<<"P","O","R","T","A","D","O","R">>), Word(<<"P","O","R","T","A","D","O","R","A">>),
    Word(<<"E","M">>), Word(<<"E">>) >>

\* a if it is a match, else b
OrMatch(a, b) == IF a # NoMatch THEN a ELSE b
\* FirstAnchor by position in the text: the leftmost match of any anchor.
FirstAnchor_text_order(up, anchors_regexes, a) ==
    LET ms == {Search(anchors_regexes[k], up) : k \in a..Len(anchors_regexes)} \ {NoMatch}
    IN  IF ms = {} THEN NoMatch ELSE CHOOSE m \in ms : \A n \in ms : m[1] <= n[1]
\* The match of the first anchor of the list, from the a-th on, that matches
\* anywhere in up.
RECURSIVE FirstAnchor(_, _, _)
FirstAnchor(up, anchors_regexes, a) ==
    IF a > Len(anchors_regexes) THEN NoMatch
    ELSE OrMatch(Search(anchors_regexes[a], up), FirstAnchor(up, anchors_regexes, a + 1))

\* cut_positions: the first comma and the first match of each stopword.
StartsOf(ms) == {m[1] : m \in ms \ {NoMatch}}
CutPositions(tail_up) ==
    {i \in DOMAIN tail_up : tail_up[i] = ","}
        \cup StartsOf({Search(STOPWORDS_POS_NOME[k], tail_up) : k \in DOMAIN STOPWORDS_POS_NOME})

\* next((ln.strip() for ln in tail_up.splitlines() if ln.strip()), "")
NotBlank(ln) == ~IsBlank(ln)
HeadOrEmpty(ls) == IF ls = <<>> THEN <<>> ELSE strip(ls[1])
FirstLine(tail_up) == HeadOrEmpty(SelectSeq(splitlines(tail_up), NotBlank))

CandidateAt(tail_up, cuts) ==
    IF cuts # {} THEN SubSeq(tail_up, 1, SetMin(cuts) - 1) ELSE FirstLine(tail_up)

\* re.sub(r"[^A-Z \n]", " ", candidate)
OnlyLetters(c) == [i \in DOMAIN c |-> IF c[i] \in Upper \cup {" ", "\n"} THEN c[i] ELSE " "]
\* re.sub(r"\s+", " ", candidate): of a run of whitespace the first stays,
\* as a space.
Kept(p) == p[2]
OneSpace(c) ==
    Firsts(SelectSeq([i \in DOMAIN c |->
        <<IF IsSpace(c[i]) THEN " " ELSE c[i], ~(IsSpace(c[i]) /\ i > 1 /\ IsSpace(c[i - 1]))>>], Kept))
Sanitize(c) == strip(OneSpace(OnlyLetters(c)))

NoneIfEmpty(c) == IF c # <<>> THEN c ELSE None
NomeFrom(up, m) ==
    IF m = NoMatch THEN None
    ELSE NoneIfEmpty(Sanitize(CandidateAt(After(up, m), CutPositions(After(up, m)))))
NomeOf(up, anchors_regexes) == NomeFrom(up, FirstAnchor(up, anchors_regexes, 1))
extract_nome_until_comma(t, anchors_regexes) == NomeOf(strip_accents(upper(t)), anchors_regexes)

\* The anchors each certificate mode hands to the extractor.
AnchorsOf(a) == IF a = "certidoes_2" THEN ANCHORS_CERTIDOES_2 ELSE ANCHORS_CERTIDOES_5_6

NxStart == [pc |-> "start", out |-> None]
NomeExtract ==
    /\ nx.pc = "start"
    /\ nx' = [pc |-> "done", out |-> extract_nome_until_comma(text, AnchorsOf(alvo))]
    /\ UNCHANGED <<v_in, v_out, alvo, text, cx, kx, lote>>

FrasesNome == {
    <<"N","A","D","A"," ","C","O","N","S","T","A"," ","E","M"," ","N","O","M","E"," ","D","E"," ">>, <<"E","M"," ","N","O","M","E"," ","D","E"," ">>, <<"c","o","m"," ","r","e","f","e","r","ê","n","c","i","a"," ","a","o"," ","n","o","m","e"," ","d","e"," ">>,
    <<"J","o","ã","o"," ","d","a"," ","S","i","l","v","a">>, <<","," ","C","P","F"," ","1">>, <<" ","C","P","F"," ","1">>, <<"\n","o","u","t","r","o","s"," ","d","a","d","o","s">>}
TextosNome == {Concat(ss) : ss \in SeqsUpTo(FrasesNome, MaxFrases)}
InitNome ==
    /\ LoteIdle
    /\ v_in = <<>> /\ v_out = "idle"
    /\ alvo \in {"certidoes_2", "certidoes_5_6"}
    /\ text \in TextosNome
    /\ cx = CxIdle /\ kx = KxIdle /\ nx = NxStart
NextNome == NomeExtract
SpecNome == InitNome /\ [][NextNome]_vars

\* The three extractors, each on its own texts.
InitExtract == InitCpf \/ InitContrato \/ InitNome
NextExtract == NextCpf \/ NextContrato \/ NextNome
SpecExtract == InitExtract /\ [][NextExtract]_vars

(***************************************************************************)
(* C9: the name after the anchor                                           *)
(***************************************************************************)
UpText == strip_accents(upper(text))
\* The anchors of the list that match somewhere in up.
Matching(up, anchors) ==
    {a \in DOMAIN anchors : \E j \in 1..Len(up) : MatchAlts(anchors[a], 1, up, j) # 0}
\* Where the leftmost match of re in up starts, and what follows that match.
LeftmostStart(re, up) == SetMin({j \in 1..Len(up) : MatchAlts(re, 1, up, j) # 0})
TailAfter(re, up) == SubSeq(up, MatchAlts(re, 1, up, LeftmostStart(re, up)), Len(up))
\* Where a comma stands or a stopword begins in the tail.
StopsOf(tail) ==
    {i \in DOMAIN tail :
        \/ tail[i] = ","
        \/ \E k \in DOMAIN STOPWORDS_POS_NOME : MatchAlts(STOPWORDS_POS_NOME[k], 1, tail, i) # 0}
CutOrLine(tail, stops, ls) ==
    IF stops # {} THEN SubSeq(tail, 1, SetMin(stops) - 1)
    ELSE IF ls # <<>> THEN strip(ls[1])
    ELSE <<>>
ExpectedOfTail(tail) == CutOrLine(tail, StopsOf(tail), SelectSeq(splitlines(tail), NotBlank))
\* The name the call is to return: the first-listed matching anchor decides.
ExpectedName(up, anchors, matching) ==
    IF matching = {} THEN None
    ELSE NoneIfEmpty(Sanitize(ExpectedOfTail(TailAfter(anchors[SetMin(matching)], up))))

\* C9: the name is none when no anchor of the list matches; otherwise the
\* tail after the first-listed anchor that matches is cut at the smallest
\* position of a comma or a stopword (without either, the first non-blank
\* line of the tail is taken), and the sanitized cut is returned, none when
\* it is empty.
C9_NameAfterFirstListedAnchor ==
    nx.pc = "done" =>
        nx.out = ExpectedName(UpText, AnchorsOf(alvo), Matching(UpText, AnchorsOf(alvo)))

\* A name was returned from the first-listed anchor although the
\* second-listed anchor matches earlier in the text.
C9_Witness ==
    /\ nx.pc = "done" /\ nx.out # None
    /\ alvo = "certidoes_5_6"
    /\ Matching(UpText, ANCHORS_CERTIDOES_5_6) = {1, 2}
    /\ LeftmostStart(ANCHORS_CERTIDOES_5_6[2], UpText) < LeftmostStart(ANCHORS_CERTIDOES_5_6[1], UpText)

(***************************************************************************)
(* C4: what the extractors return                                          *)
(***************************************************************************)
AllIn(s, cls) == \A i \in DOMAIN s : s[i] \in cls

\* C4: an ID returned by extract_cpf_first_buyer has 11 digits and passes
\* validate_cpf; a number returned by extract_contract_number has exactly 13
\* digits; a name returned by extract_nome_until_comma is not empty and is
\* clean (capital letters and single inner spaces).
C4_ReturnedValues ==
    /\ (cx.pc = "done" /\ cx.cpf # None) =>
          Len(cx.cpf) = 11 /\ AllIn(cx.cpf, Digit) /\ validate_cpf(cx.cpf)
    /\ (kx.pc = "done" /\ kx.out # None) =>
          Len(kx.out) = 13 /\ AllIn(kx.out, Digit)
    /\ (nx.pc = "done" /\ nx.out # None) =>
          /\ Len(nx.out) >= 1 /\ AllIn(nx.out, Upper \cup {" "})
          /\ nx.out[1] # " " /\ nx.out[Len(nx.out)] # " "

\* An ID was returned from a text that also holds an 11-digit candidate
\* failing the checksum, ahead of it.
C4_Witness ==
    /\ cx.pc = "done" /\ cx.cpf # None /\ cx.status = STATUS_FULLSCAN
    /\ \E i \in 1..(Len(text) - 24) :
          /\ SubSeq(text, i, i + 13) = <<"5","2","9",".","9","8","2",".","2","4","7","-","2","6">>
          /\ \E j \in (i + 14)..(Len(text) - 10) : SubSeq(text, j, j + 10) = cx.cpf

(***************************************************************************)
(* The renaming cases (rename_contratos, rename_certidoes_2,               *)
(* rename_certidoes_5_6) and the batch run (App.run).  A file name is a    *)
(* sequence of characters; the output folder is the set of the names in    *)
(* it; read_pdf_text(pdf) is the text the input folder holds for the name. *)
(***************************************************************************)
MODES == {"contratos", "certidoes_2", "certidoes_5_6"}

STATUS_PDF_SEM_TEXTO == "ERRO: PDF sem texto (digitalizado sem OCR?)"
STATUS_SEM_CONTRATO == "ERRO: Número de contrato (13 dígitos) não encontrado"
STATUS_SEM_NOME_2 == "ERRO: Nome não encontrado após 'COM REFERENCIA AO NOME DE' até a vírgula"
STATUS_SEM_NOME_5_6 == "ERRO: Nome não encontrado após 'NADA CONSTA EM NOME DE/EM NOME DE' até a vírgula"
\* f"ERRO: {e}" of the except clause, whatever the exception e.
STATUS_EXCECAO == "ERRO: {e}"
headers == <<"Arquivo Original", "Nome Novo", "Status">>

\* str(i) inside an f-string: the decimal digits of i.
RECURSIVE str(_)
str(n) == IF n < 10 THEN <<DIGITS[n + 1]>> ELSE str(n \div 10) \o <<DIGITS[(n % 10) + 1]>>

\* Line 361: \b6[ºO]?\s*OFICIO\b on the upper-cased text without accents.
OFICIO_REGEX == <<Bd \o Lit(<<"6">>) \o Opt({"º", "O"}) \o Sp0 \o Lit(<<"O","F","I","C","I","O">>) \o Bd>>
extract_oficio_num(t) ==
    IF Search(OFICIO_REGEX, strip_accents(upper(t))) # NoMatch THEN <<"6">> ELSE <<"5">>

\* A rename_* call up to its while loop: either it has returned
\* (pdf.name, "", status), or it holds the fields of the new name.
Returned(status) ==
    [erro |-> TRUE, cpf |-> None, contrato |-> None, nome |-> None, oficio |-> None, status |-> status]
Fields(cpf, contrato, nome, oficio, status) ==
    [erro |-> FALSE, cpf |-> cpf, contrato |-> contrato, nome |-> nome, oficio |-> oficio, status |-> status]

\* Lines 373-379.
ContratosFields(cs, contrato) ==
    IF cs[1] = None THEN Returned(cs[2])
    ELSE IF contrato = None THEN Returned(STATUS_SEM_CONTRATO)
    ELSE Fields(cs[1], contrato, None, None, cs[2])
\* Lines 369-379.
rename_contratos(t) ==
    IF t = <<>> THEN Returned(STATUS_PDF_SEM_TEXTO)
    ELSE ContratosFields(extract_cpf_first_buyer(t), extract_contract_number(t))

Certidoes2Fields(nome) ==
    IF nome = None THEN Returned(STATUS_SEM_NOME_2) ELSE Fields(None, None, nome, None, STATUS_OK)
\* Lines 392-399.
rename_certidoes_2(t) ==
    IF t = <<>> THEN Returned(STATUS_PDF_SEM_TEXTO)
    ELSE Certidoes2Fields(extract_nome_until_comma(t, ANCHORS_CERTIDOES_2))

Certidoes56Fields(nome, t) ==
    IF nome = None THEN Returned(STATUS_SEM_NOME_5_6)
    ELSE Fields(None, None, nome, extract_oficio_num(t), STATUS_OK)
\* Lines 409-418.
rename_certidoes_5_6(t) ==
    IF t = <<>> THEN Returned(STATUS_PDF_SEM_TEXTO)
    ELSE Certidoes56Fields(extract_nome_until_comma(t, ANCHORS_CERTIDOES_5_6), t)

\* Lines 524-528: the function of the mode.
fn(m, t) ==
    CASE m = "contratos" -> rename_contratos(t)
      [] m = "certidoes_2" -> rename_certidoes_2(t)
      [] OTHER -> rename_certidoes_5_6(t)

\* The f-strings of the destination: the first name (lines 381, 400, 419)
\* and the name inside the while loop (lines 385, 403, 422).
PDF == <<".","p","d","f">>
novo(m, l) ==
    CASE m = "contratos" -> l.cpf \o <<"_">> \o l.contrato \o PDF
      [] m = "certidoes_2" -> l.nome \o <<"-", "2">> \o PDF
      [] OTHER -> l.nome \o <<"-">> \o l.oficio \o PDF
\* The name inside the while loop, one too far with its number.
novo_i_plus_one(m, l, i) ==
    CASE m = "contratos" -> l.cpf \o <<"_">> \o l.contrato \o <<"_">> \o str(i + 1) \o PDF
      [] m = "certidoes_2" -> l.nome \o <<"-", "2", ".">> \o str(i + 1) \o PDF
      [] OTHER -> l.nome \o <<"-">> \o l.oficio \o <<".">> \o str(i + 1) \o PDF
novo_i(m, l, i) ==
    CASE m = "contratos" -> l.cpf \o <<"_">> \o l.contrato \o <<"_">> \o str(i) \o PDF
      [] m = "certidoes_2" -> l.nome \o <<"-", "2", ".">> \o str(i) \o PDF
      [] OTHER -> l.nome \o <<"-">> \o l.oficio \o <<".">> \o str(i) \o PDF

\* The code point of a character of a file name.
ord(c) ==
    CASE c = "." -> 46
      [] c \in Digit -> 47 + IndexOf(DIGITS, c)
      [] c \in Upper -> 64 + IndexOf(UPPERS, c)
      [] c = "_" -> 95
      [] OTHER -> 96 + IndexOf(LOWERS, c)
\* a < b for two paths of one folder: the names compared as strings.
Differ(a, b) == {k \in 1..Min2(Len(a), Len(b)) : a[k] # b[k]}
LessAt(a, b, D) == IF D = {} THEN Len(a) < Len(b) ELSE ord(a[SetMin(D)]) < ord(b[SetMin(D)])
Less(a, b) == LessAt(a, b, Differ(a, b))
\* Line 530: sorted(entrada.glob("*.pdf")).
sorted(S) ==
    IF S = {} THEN <<>>
    ELSE CHOOSE s \in [1..Cardinality(S) -> S] : \A i, j \in DOMAIN s : i < j => Less(s[i], s[j])

\* The locals of App.run and of the rename_* call it is in: pc (where the run
\* is), pdfs, pos (the index of pdf in pdfs), ws (the rows of the sheet),
\* ok, and cpf, contrato, nome, oficio, status, dest, i of the call.
BxStart ==
    [pc |-> "start", pdfs |-> <<>>, pos |-> 0, ws |-> <<>>, ok |-> 0,
     cpf |-> None, contrato |-> None, nome |-> None, oficio |-> None,
     status |-> "", dest |-> <<>>, i |-> 0]

\* Lines 530-555: no PDF, no run; else the sheet with its header row.
RunStart(b, pdfs) ==
    IF pdfs = <<>> THEN [b EXCEPT !.pc = "return"]
    ELSE [b EXCEPT !.pc = "for", !.pdfs = pdfs, !.pos = 1, !.ws = <<headers>>, !.ok = 0]

\* Lines 561-568: the row of the document, the count of the renamed, and on
\* to the next document.
Row(b, novo_name, status) ==
    [b EXCEPT !.ws = Append(b.ws, <<b.pdfs[b.pos], novo_name, status>>),
              !.ok = IF status = STATUS_OK THEN b.ok + 1 ELSE b.ok,
              !.pos = b.pos + 1, !.pc = "for"]

\* An exception that ends the run instead of being caught.
ExceptClause_uncaught(b) == [b EXCEPT !.pc = "done"]
\* Lines 559-560: except Exception as e.
ExceptClause(b) == Row(b, <<>>, STATUS_EXCECAO)

\* The call of fn(pdf, saida) up to its while loop, given what fn makes of
\* the text: the early return, or dest and i = 1.
Enter(b, m, l) ==
    IF l.erro THEN Row(b, <<>>, l.status)
    ELSE [b EXCEPT !.cpf = l.cpf, !.contrato = l.contrato, !.nome = l.nome, !.oficio = l.oficio,
                   !.status = l.status, !.dest = novo(m, l), !.i = 1, !.pc = "while"]

\* The while loop without its test: the first name is taken as it is.
While_no_test(b, m, dir) == [b EXCEPT !.pc = "copy"]
\* Lines 384-386, 402-404, 421-423: one test of the while loop.
While(b, m, dir) ==
    IF b.dest \in dir THEN [b EXCEPT !.dest = novo_i(m, b, b.i), !.i = b.i + 1]
    ELSE [b EXCEPT !.pc = "copy"]

\* Line 535: the log of the run, written to the output folder.
xlsx_path == <<"r","e","n","o","m","e","a","c","a","o","_","l","o","g","_">> \o <<"{ts}">> \o <<".","x","l","s","x">>

(***************************************************************************)
(* The folders of a run: up to MaxDocs PDFs in the input folder, each with *)
(* one of the texts below, and an output folder that holds the first name  *)
(* of the known fields and some of its numbered names.                     *)
(***************************************************************************)
MaxDocs == 2
MaxSufixo == 9

DOC_OK == FRASE_PRINCIPAL \o <<" ","C","P","F"," ","5","2","9",".","9","8","2",".","2","4","7","-","2","5"," ">> \o <<"\n">> \o <<"C","O","N","T","R","A","T","O"," ","N","º"," ","1","2","3","4","5","6","7","8","9","0","1","2","3"," ">>
DOC_FALLBACK == <<"C","O","M","P","R","A","D","O","R"," ","C","P","F"," ","5","2","9",".","9","8","2",".","2","4","7","-","2","5"," ">> \o <<"\n">> \o <<"C","O","N","T","R","A","T","O"," ","N","º"," ","1","2","3","4","5","6","7","8","9","0","1","2","3"," ">>
DOC_SEM_CPF == <<"C","O","N","T","R","A","T","O"," ","N","º"," ","1","2","3","4","5","6","7","8","9","0","1","2","3"," ">>
DOC_SEM_CONTRATO == FRASE_PRINCIPAL \o <<" ","C","P","F"," ","5","2","9",".","9","8","2",".","2","4","7","-","2","5"," ">>
DOC_VAZIO == <<>>
DOC_CERTIDAO_2 == <<"C","e","r","t","i","f","i","c","o",","," ","c","o","m"," ","r","e","f","e","r","ê","n","c","i","a"," ","a","o"," ","n","o","m","e"," ","d","e"," ","J","o","ã","o"," ","d","a"," ","S","i","l","v","a",","," ","C","P","F"," ","1">>
DOC_CERTIDAO_5 == <<"N","A","D","A"," ","C","O","N","S","T","A"," ","E","M"," ","N","O","M","E"," ","D","E"," ","J","o","ã","o"," ","d","a"," ","S","i","l","v","a",","," ","C","P","F"," ","1">>
DOC_CERTIDAO_6 == <<"6","º"," ","O","F","I","C","I","O"," ">> \o <<"\n">> \o <<"N","A","D","A"," ","C","O","N","S","T","A"," ","E","M"," ","N","O","M","E"," ","D","E"," ","J","o","ã","o"," ","d","a"," ","S","i","l","v","a",","," ","C","P","F"," ","1">>
DOC_SEM_NOME == <<"o","u","t","r","o","s"," ","d","a","d","o","s">>
DocsOf(m) ==
    CASE m = "contratos" -> {DOC_OK, DOC_FALLBACK, DOC_SEM_CPF, DOC_SEM_CONTRATO, DOC_VAZIO}
      [] m = "certidoes_2" -> {DOC_CERTIDAO_2, DOC_SEM_NOME, DOC_VAZIO}
      [] OTHER -> {DOC_CERTIDAO_5, DOC_CERTIDAO_6, DOC_SEM_NOME, DOC_VAZIO}

NOMES_PDF == <<<<"1","0",".","p","d","f">>, <<"9",".","p","d","f">>, <<"a",".","p","d","f">>, <<"b",".","p","d","f">>>>
NomesPdf == {NOMES_PDF[k] : k \in 1..Min2(MaxDocs, Len(NOMES_PDF))}
Entradas(m) == UNION {[S -> DocsOf(m)] : S \in SUBSET NomesPdf}

KnownFields(m) ==
    Fields(<<"5","2","9","9","8","2","2","4","7","2","5">>, <<"1","2","3","4","5","6","7","8","9","0","1","2","3">>, <<"J","O","A","O"," ","D","A"," ","S","I","L","V","A">>, <<"5">>, STATUS_OK)
NameNo(m, k) == IF k = 0 THEN novo(m, KnownFields(m)) ELSE novo_i(m, KnownFields(m), k)
Saidas(m) == {{NameNo(m, k) : k \in S} : S \in {{}, {0}, {0, 2}, 0..MaxSufixo}}

\* fn is a function of the mode and of the text: its values on the texts of
\* the model, computed once.
FnTable == UNION {{<<m, t, fn(m, t)>> : t \in DocsOf(m)} : m \in MODES}
FnOf(m, t) == (CHOOSE r \in FnTable : r[1] = m /\ r[2] = t)[3]

extr == <<v_in, v_out, alvo, text, cx, kx, nx>>

\* Lines 519-555.
AppRun ==
    /\ bx.pc = "start"
    /\ bx' = RunStart(bx, sorted(DOMAIN entrada))
    /\ UNCHANGED <<extr, mode, entrada, saida>>
\* Lines 556-558 and the rename_* call up to its while loop.
RenameCall ==
    /\ bx.pc = "for" /\ bx.pos <= Len(bx.pdfs)
    /\ bx' = Enter(bx, mode, FnOf(mode, entrada[bx.pdfs[bx.pos]]))
    /\ UNCHANGED <<extr, mode, entrada, saida>>
RenameWhile ==
    /\ bx.pc = "while"
    /\ bx' = While(bx, mode, saida)
    /\ UNCHANGED <<extr, mode, entrada, saida>>
\* Lines 387-388, 405-406, 424-425 and 561-568: the copy and the row.
RenameCopy ==
    /\ bx.pc = "copy"
    /\ saida' = saida \cup {bx.dest}
    /\ bx' = Row(bx, bx.dest, bx.status)
    /\ UNCHANGED <<extr, mode, entrada>>
\* shutil.copy2 raises: the destination was written (the metadata failed) or
\* it was not.
RenameRaises ==
    /\ bx.pc = "copy"
    /\ saida' \in {saida, saida \cup {bx.dest}}
    /\ bx' = ExceptClause(bx)
    /\ UNCHANGED <<extr, mode, entrada>>
\* Lines 570-591: the end of the loop, the sheet saved.
RunSave ==
    /\ bx.pc = "for" /\ bx.pos > Len(bx.pdfs)
    /\ bx' = [bx EXCEPT !.pc = "done"]
    /\ saida' = saida \cup {xlsx_path}
    /\ UNCHANGED <<extr, mode, entrada>>

Init ==
    /\ v_in = <<>> /\ v_out = "idle"
    /\ alvo = "lote" /\ text = <<>> /\ cx = CxIdle /\ kx = KxIdle /\ nx = NxIdle
    /\ mode \in MODES
    /\ entrada \in Entradas(mode)
    /\ saida \in Saidas(mode)
    /\ bx = BxStart
Next == AppRun \/ RenameCall \/ RenameWhile \/ RenameCopy \/ RenameRaises \/ RunSave
Spec == Init /\ [][Next]_vars

(***************************************************************************)
(* C6: the name a rename_* call copies to.                                 *)
(***************************************************************************)
\* The names of the claim: number 0 is the base name, ID_contract.pdf or
\* name-code.pdf, and number i >= 1 carries the suffix _i or .i.
ClaimedStem(m, b) ==
    IF m = "contratos" THEN b.cpf \o <<"_">> \o b.contrato
    ELSE b.nome \o <<"-">> \o (IF m = "certidoes_2" THEN <<"2">> ELSE b.oficio)
ClaimedSuffix(m, i) ==
    IF i = 0 THEN <<>> ELSE <<IF m = "contratos" THEN "_" ELSE ".">> \o str(i)
ClaimedName(m, b, i) == ClaimedStem(m, b) \o ClaimedSuffix(m, i) \o PDF
FreeNumbers(m, b, dir) == {i \in 0..(Cardinality(dir) + 1) : ClaimedName(m, b, i) \notin dir}
Resolved(m, b, dir) == ClaimedName(m, b, SetMin(FreeNumbers(m, b, dir)))

\* C6: the while loop of a rename_* call is at its i-th test after i - 1
\* names that all exist in the output folder, so it ends within one test
\* per existing name; the name it copies to is the function of the fields
\* and of the folder that follows: the base name if it does not exist,
\* else the name with the smallest number i >= 1 that does not exist; and
\* that name is never the name of an existing file.
C6_FilenameResolution ==
    /\ bx.pc \in {"while", "copy"} =>
          /\ bx.i >= 1 /\ bx.i <= Cardinality(saida) + 1
          /\ bx.dest = ClaimedName(mode, bx, bx.i - 1)
          /\ \A k \in 0..(bx.i - 2) : ClaimedName(mode, bx, k) \in saida
    /\ bx.pc = "copy" =>
          /\ bx.dest = Resolved(mode, bx, saida)
          /\ bx.dest \notin saida
\* The base name and number 2 exist, number 1 does not: the loop has stopped
\* at the name with number 1.
C6_Witness ==
    /\ bx.pc = "copy" /\ bx.i = 2
    /\ ClaimedName(mode, bx, 0) \in saida /\ ClaimedName(mode, bx, 2) \in saida
    /\ bx.dest = ClaimedName(mode, bx, 1)

(***************************************************************************)
(* C7: the rows of the sheet.                                              *)
(***************************************************************************)
\* The statuses that start with "ERRO".
ErrorStatuses ==
    {STATUS_SEM_TEXTO, STATUS_ERRO_PRINCIPAL, STATUS_NENHUM, STATUS_PDF_SEM_TEXTO,
     STATUS_SEM_CONTRATO, STATUS_SEM_NOME_2, STATUS_SEM_NOME_5_6, STATUS_EXCECAO}
\* The documents that fail: an empty text, or no ID, contract or name in it.
NoFields(m, t) ==
    IF m = "contratos"
    THEN extract_cpf_first_buyer(t)[1] = None \/ extract_contract_number(t) = None
    ELSE extract_nome_until_comma(t, AnchorsOf(m)) = None
FailingDocs == UNION {{<<m, t>> : t \in {d \in DocsOf(m) : d = <<>> \/ NoFields(m, d)}} : m \in MODES}
Records(b) == Tail(b.ws)
RecordOk(m, rec, name, t) ==
    /\ rec[1] = name
    /\ <<m, t>> \in FailingDocs => rec[3] \in ErrorStatuses
    /\ rec[3] \in ErrorStatuses => rec[2] = <<>>
    /\ rec[3] \notin ErrorStatuses => rec[2] # <<>>
RecordsOk(m, recs, pdfs, docs) == \A k \in DOMAIN recs : RecordOk(m, recs[k], pdfs[k], docs[pdfs[k]])
SortedNames(pdfs, S) ==
    /\ Len(pdfs) = Cardinality(S) /\ Range(pdfs) = S
    /\ \A i, j \in DOMAIN pdfs : i < j => Less(pdfs[i], pdfs[j])

\* C7: during and after the loop of a run, the documents are the PDFs of the
\* input folder in sorted order; the sheet holds, after its header, exactly
\* one row for each document gone through, in that order and under the
\* document's name; a row of a document that fails (empty text, no ID,
\* contract or name, an exception) has an error status, and a row with an
\* error status has an empty new name; and at the end of the run every
\* document has its row, whatever happened to the documents before it.
C7_OneRecordPerDocument ==
    bx.pc \in {"for", "while", "copy", "done"} =>
        /\ SortedNames(bx.pdfs, DOMAIN entrada)
        /\ Len(Records(bx)) = bx.pos - 1
        /\ RecordsOk(mode, Records(bx), bx.pdfs, entrada)
        /\ bx.pc = "done" => Len(Records(bx)) = Len(bx.pdfs)
\* A run is over: the copy of its first document raised an exception, its
\* second document was copied under a new name.
C7_Witness ==
    /\ bx.pc = "done" /\ Len(bx.pdfs) = 2
    /\ Records(bx)[1][3] = STATUS_EXCECAO /\ Records(bx)[1][2] = <<>>
    /\ Records(bx)[2][2] # <<>> /\ Records(bx)[2][2] \in saida

(***************************************************************************)
(* C11: the label strategy of the full scan.                               *)
(***************************************************************************)
\* Texts for the full scan: labels followed by digits that pass the checksum
\* or do not, IDs without a label, and the anchors that keep the scan away.
FrasesFullscan == {
    FRASE_PRINCIPAL,
    <<"C","O","M","P","R","A","D","O","R"," ">>,
    <<"C","P","F"," ","1","1","1",".","4","4","4",".","7","7","7","-","3","6"," ">>,
    <<"C","P","F"," ","5"," ","2"," ","9"," ","9"," ","8"," ","2"," ","2"," ","4"," ","7"," ","2"," ","5"," ">>,
    <<"5","2","9",".","9","8","2",".","2","4","7","-","2","5"," ">>,
    <<"1","1","1","4","4","4","7","7","7","3","5"," ">> }
TextosFullscan == {Concat(ss) : ss \in SeqsUpTo(FrasesFullscan, MaxFrases)}
InitFullscan ==
    /\ LoteIdle
    /\ v_in = <<>> /\ v_out = "idle"
    /\ alvo = "cpf"
    /\ text \in TextosFullscan
    /\ cx = CxStart /\ kx = KxIdle /\ nx = NxIdle
SpecFullscan == InitFullscan /\ [][NextCpf]_vars

\* The full scan has run when the call returns one of its two statuses.
FullscanRan == cx.pc = "done" /\ cx.status \in {STATUS_FULLSCAN, STATUS_NENHUM}
\* C11: when the full scan has run and some ID label of the text is followed
\* by 11 digits that pass the checksum, the call returns the earliest such
\* candidate, the one a label window over every label of the text finds,
\* also when an earlier label is followed by 11 digits that do not pass.
C11_FullscanEveryLabel ==
    (FullscanRan /\ _extract_cpf_by_label_window(text) # None) =>
        cx.cpf = _extract_cpf_by_label_window(text)

(***************************************************************************)
(* C12: what one step of a run does to the output folder.                  *)
(***************************************************************************)
\* The new name of the outcome a step adds to the sheet, if it adds one with
\* a new name; the names the folder gains by the step.
NewNames(b, b2) ==
    IF b.pc \in {"for", "copy"} /\ Len(b2.ws) = Len(b.ws) + 1 /\ b2.ws[Len(b2.ws)][2] # <<>>
    THEN {b2.ws[Len(b2.ws)][2]}
    ELSE {}
Gained(dir, dir2) == dir2 \ dir
EarlierNames(b) == {b.ws[k][2] : k \in 2..Len(b.ws)}
\* What the folder gains besides the copies: the sheet of the run at its
\* end, and the destination of a copy that raised an exception.
Leftovers(b, b2) ==
    IF b.pc = "for" /\ b2.pc = "done" THEN {xlsx_path}
    ELSE IF b.pc = "copy" /\ b2.ws[Len(b2.ws)][3] = STATUS_EXCECAO THEN {b.dest}
    ELSE {}
NoOverwrite(b, b2, dir, dir2) ==
    /\ dir \subseteq dir2
    /\ NewNames(b, b2) \cap dir = {}
    /\ NewNames(b, b2) \cap EarlierNames(b) = {}
    /\ NewNames(b, b2) \subseteq dir2

=============================================================================
